---- MODULE Spec2Model ----
(***************************************************************************)
(* Rail Madad chatbot webhook (backend/app.py, backend/main.py).           *)
(*                                                                         *)
(* Text that the code inspects character by character (station input, PNR  *)
(* number, complaint text, raw utterance) is a sequence of one-character   *)
(* strings.  JSON values are records tagged by t: "absent" (key missing),  *)
(* "null", "array" (a value of a type the handler does not expect), "num", *)
(* "str", "dict", "list".  A Python exception that leaves a function is   *)
(* the value Raised.                                                       *)
(***************************************************************************)
EXTENDS Integers, Sequences, FiniteSets, TLC

VARIABLES pnr_data, station_data_raw, queries, complaints, request, response,
          threads, writer, retry, turns

vars == <<pnr_data, station_data_raw, queries, complaints, request, response,
          threads, writer, retry, turns>>

(***************************************************************************)
(* Bounds of the model.                                                    *)
(***************************************************************************)
MaxRecords == 2
MaxFragments == 2
MaxSwaps == 1
MaxPnrDigits == 11
MaxThreads == 2
MaxQuotes == 2
MaxTurns == 4

(***************************************************************************)
(* JSON values.                                                            *)
(***************************************************************************)
Absent == [t |-> "absent"]
Null == [t |-> "null"]
\* A non-empty JSON array such as [0], where the handler expects something else.
ListV == [t |-> "array"]
Str(s) == [t |-> "str", s |-> s]
Num(neg, digits, frac) == [t |-> "num", neg |-> neg, digits |-> digits, frac |-> frac]
IntV(n) == [t |-> "int", n |-> n]
Dict(d) == [t |-> "dict", d |-> d]
List(xs) == [t |-> "list", xs |-> xs]

None == [t |-> "none"]
Raised == [t |-> "raised"]

\* Python truthiness of a value read from a context's parameters.
Truthy(v) ==
    CASE v.t = "str" -> v.s # <<>>
      [] v.t = "null" -> FALSE
      [] v.t = "absent" -> FALSE
      [] OTHER -> TRUE

\* dict.get(key, ''): the value, or the empty string when the key is missing.
GetOrEmpty(d, key) == IF d[key] = Absent THEN Str(<<>>) ELSE d[key]

(***************************************************************************)
(* Characters.                                                             *)
(***************************************************************************)
UpperCase == <<"A","B","C","D","E","F","G","H","I","J","K","L","M",
               "N","O","P","Q","R","S","T","U","V","W","X","Y","Z">>
LowerCase == <<"a","b","c","d","e","f","g","h","i","j","k","l","m",
               "n","o","p","q","r","s","t","u","v","w","x","y","z">>
Digits == {"0","1","2","3","4","5","6","7","8","9"}

LowerChar(c) ==
    IF \E i \in DOMAIN UpperCase : UpperCase[i] = c
    THEN LowerCase[CHOOSE i \in DOMAIN UpperCase : UpperCase[i] = c]
    ELSE c

\* str.lower()
lower(s) == [i \in DOMAIN s |-> LowerChar(s[i])]

\* keyword in text
Contains(text, kw) ==
    \E i \in 0..(Len(text) - Len(kw)) : \A j \in DOMAIN kw : text[i + j] = kw[j]

\* Mutant: at most one character is taken off each end.
strip_OnePerSide(s, ch) ==
    LET lo == IF s # <<>> /\ s[1] = ch THEN 2 ELSE 1
        hi == IF Len(s) >= lo /\ s[Len(s)] = ch THEN Len(s) - 1 ELSE Len(s)
    IN SubSeq(s, lo, hi)

\* str.strip(ch)
strip(s, ch) ==
    LET keep == {i \in DOMAIN s : s[i] # ch}
    IN IF keep = {} THEN <<>>
       ELSE LET lo == CHOOSE i \in keep : \A j \in keep : i <= j
                hi == CHOOSE i \in keep : \A j \in keep : j <= i
            IN SubSeq(s, lo, hi)

(***************************************************************************)
(* The record sink: two tables with AUTOINCREMENT keys.                    *)
(***************************************************************************)
\* cursor.lastrowid after an INSERT into an AUTOINCREMENT table that never
\* loses rows: one more than the number of rows.
lastrowid(table) == Len(table) + 1

\* sqlite3 binds None, numbers and text; any other Python value is refused.
Bindable(v) == v.t \in {"str", "null", "num", "int"}

Fulfil(tmpl, args) == [tmpl |-> tmpl, args |-> args]

Reply(text) == [fulfillmentText |-> text, outputContexts |-> Absent]
ReplyCtx(text, ctxs) == [fulfillmentText |-> text, outputContexts |-> List(ctxs)]

\* What a handler does: the body it returns (or Raised) and the rows it inserted.
Outcome(body, qrows, crows) == [body |-> body, qrows |-> qrows, crows |-> crows]

(***************************************************************************)
(* Requests and contexts.                                                  *)
(***************************************************************************)
NoParams ==
    [user_query |-> Absent, station_input |-> Absent,
     pnr_number |-> Absent, complaint_text |-> Absent]

Param(key, v) == Dict([NoParams EXCEPT ![key] = v])

NoCtxParams ==
    [pnr |-> Absent, complaint_token |-> Absent,
     station_confirmed |-> Absent, phone_number |-> Absent]

Context(name, parameters) ==
    [name |-> name, lifespanCount |-> 1, parameters |-> parameters]

\* f"{request_json['session']}/contexts/<kind>"
ContextName(session, kind) == Str(<<session.s, "/contexts/", kind>>)

\* '<kind>' in c['name'], for a name that is a string
NameHas(name, kind) == \E i \in DOMAIN name.s : name.s[i] = kind

Request(intent, parameters, contexts, session, queryText) ==
    [intent |-> intent, parameters |-> parameters, outputContexts |-> contexts,
     session |-> session, queryText |-> queryText]

(***************************************************************************)
(* Lookup stores, loaded at startup.                                       *)
(***************************************************************************)
\* station_data_processed: both columns lower-cased, same row order.
station_data_processed ==
    IF station_data_raw = None THEN None
    ELSE [t |-> "frame",
          rows |-> [i \in DOMAIN station_data_raw.rows |->
                      [station |-> lower(station_data_raw.rows[i].station),
                       id_code |-> lower(station_data_raw.rows[i].id_code)]]]

(***************************************************************************)
(* capture_user_query                                                      *)
(***************************************************************************)
QueryRow(id, text) == [query_id |-> id, query_text |-> text, status |-> "Open"]

\* app.py: no try/except; the row is inserted and its id reported.
handle_query_intent(r, dbOk) ==
    IF r.parameters.t # "dict" \/ r.parameters.d.user_query = Absent
    THEN Outcome(Raised, <<>>, <<>>)
    ELSE LET user_query_text == r.parameters.d.user_query
             new_query_id == lastrowid(queries)
         IN IF ~dbOk \/ ~Bindable(user_query_text) \/ user_query_text = Null
            THEN Outcome(Raised, <<>>, <<>>)
            ELSE Outcome(
                   Reply(Fulfil("Thank you. Your query has been registered with ID: Q-{new_query_id}.",
                                <<IntV(new_query_id)>>)),
                   <<QueryRow(new_query_id, user_query_text)>>, <<>>)

\* main.py: only a missing key is caught; nothing is stored and the id is fixed.
fake_query_id == 1001

main_handle_query_intent(r) ==
    IF r.parameters.t \in {"null", "array"}
    THEN Outcome(Raised, <<>>, <<>>)
    ELSE IF r.parameters.t = "absent" \/ r.parameters.d.user_query = Absent
    THEN Outcome(Reply(Fulfil("Error: Could not find user_query parameter.", <<>>)), <<>>, <<>>)
    ELSE Outcome(
           Reply(Fulfil("Thank you. Your query has been registered with ID: Q-{fake_query_id}. We will get back to you shortly.",
                        <<IntV(fake_query_id)>>)),
           <<>>, <<>>)

(***************************************************************************)
(* provide_phone_number                                                    *)
(***************************************************************************)
handle_phone_number(r) ==
    Outcome(Reply(Fulfil("Error: Phone handler was called, but should be static.", <<>>)),
            <<>>, <<>>)

(***************************************************************************)
(* provide_station_name                                                    *)
(***************************************************************************)
StationMatches(user_input) ==
    {i \in DOMAIN station_data_processed.rows :
        \/ station_data_processed.rows[i].id_code = user_input
        \/ station_data_processed.rows[i].station = user_input}

FirstIndex(S) == CHOOSE i \in S : \A j \in S : i <= j

\* Mutant: a miss still opens the confirmation step, with the text typed.
StationNotFound_Advances(r) ==
    Outcome(ReplyCtx(Fulfil("Did you mean '{original_station_name}'?",
                            <<r.parameters.d.station_input>>),
                     <<Context(Str(<<"awaiting-station-confirmation">>),
                               Dict([NoCtxParams EXCEPT
                                       !.station_confirmed = r.parameters.d.station_input]))>>),
            <<>>, <<>>)

StationNotFound(r) ==
    Outcome(Reply(Fulfil("Sorry, I couldn't find that station. Please try the name or code again.", <<>>)),
            <<>>, <<>>)

handle_station_search(r) ==
    IF r.parameters.t # "dict"
    THEN Outcome(Raised, <<>>, <<>>)
    ELSE LET raw == GetOrEmpty(r.parameters.d, "station_input")
         IN IF raw.t # "str"
            THEN Outcome(Raised, <<>>, <<>>)
            ELSE LET user_input == strip(lower(raw.s), "\"")
                 IN IF station_data_processed = None
                    THEN Outcome(Reply(Fulfil("Error: Station database is not loaded. Please contact support.", <<>>)),
                                 <<>>, <<>>)
                    ELSE IF StationMatches(user_input) # {}
                    THEN LET original_station_name ==
                                 Str(station_data_raw.rows[FirstIndex(StationMatches(user_input))].station)
                         IN IF r.session = Absent
                            THEN Outcome(Raised, <<>>, <<>>)
                            ELSE Outcome(
                                   ReplyCtx(Fulfil("Did you mean '{original_station_name}'?",
                                                   <<original_station_name>>),
                                            <<Context(ContextName(r.session, "awaiting-station-confirmation"),
                                                      Dict([NoCtxParams EXCEPT
                                                              !.station_confirmed = original_station_name]))>>),
                                   <<>>, <<>>)
                    ELSE StationNotFound(r)

(***************************************************************************)
(* user_confirms_station_yes                                               *)
(***************************************************************************)
\* The loop stops at the first context whose name cannot be searched (it
\* raises) or whose name contains the kind (it breaks).
FirstStop(ctxs, kind) ==
    LET stops == {i \in DOMAIN ctxs :
                     ctxs[i].name.t # "str" \/ NameHas(ctxs[i].name, kind)}
    IN IF stops = {} THEN 0 ELSE FirstIndex(stops)

ConfirmError == Outcome(Reply(Fulfil("An error occurred. Please try again.", <<>>)), <<>>, <<>>)

ConfirmReply(r, confirmed_station) ==
    IF r.session = Absent
    THEN ConfirmError
    ELSE Outcome(
           ReplyCtx(Fulfil("Great! Complaint at '{confirmed_station}'. Please describe your complaint (e.g., 'no water', 'dirty platform').",
                           <<confirmed_station>>),
                    <<Context(ContextName(r.session, "awaiting-complaint-description"),
                              Dict([NoCtxParams EXCEPT !.station_confirmed = confirmed_station]))>>),
           <<>>, <<>>)

handle_station_confirmed(r) ==
    IF r.outputContexts.t # "list"
    THEN ConfirmError
    ELSE LET contexts == r.outputContexts.xs
             k == FirstStop(contexts, "awaiting-station-confirmation")
         IN IF k = 0
            THEN ConfirmReply(r, Str(<<"U","n","k","n","o","w","n">>))
            ELSE IF contexts[k].name.t # "str"
            THEN ConfirmError
            ELSE IF contexts[k].parameters.t # "dict"
            THEN ConfirmError
            ELSE IF contexts[k].parameters.d.station_confirmed = Absent
            THEN ConfirmError
            ELSE ConfirmReply(r, contexts[k].parameters.d.station_confirmed)

(***************************************************************************)
(* provide_pnr                                                             *)
(***************************************************************************)
PadWidth == 10

Spaces == {" "}

\* str(int(float(x))) for a text x: surrounding blanks dropped, an optional
\* sign, digits with at most one point and at least one digit; the fraction is
\* cut off, leading zeros go, and minus zero is "0".  The exponent, inf, nan
\* and underscore forms of float() need letters that no input here contains,
\* and every integer part here is far below 2^53, where float() is exact.
IntText(neg, intDigits) ==
    LET nz == {i \in DOMAIN intDigits : intDigits[i] # "0"}
    IN IF nz = {} THEN <<"0">>
       ELSE (IF neg THEN <<"-">> ELSE <<>>)
            \o SubSeq(intDigits, FirstIndex(nz), Len(intDigits))

ParseText(x) ==
    LET body == LET keep == {i \in DOMAIN x : x[i] \notin Spaces}
                IN IF keep = {} THEN <<>>
                   ELSE SubSeq(x, FirstIndex(keep),
                               CHOOSE i \in keep : \A j \in keep : j <= i)
        signed == body # <<>> /\ body[1] \in {"-", "+"}
        neg == body # <<>> /\ body[1] = "-"
        num == IF signed THEN Tail(body) ELSE body
        points == {i \in DOMAIN num : num[i] = "."}
        wellFormed == /\ \A i \in DOMAIN num : num[i] \in Digits \cup {"."}
                      /\ Cardinality(points) <= 1
                      /\ \E i \in DOMAIN num : num[i] \in Digits
        intDigits == IF points = {} THEN num
                     ELSE SubSeq(num, 1, FirstIndex(points) - 1)
    IN IF wellFormed THEN [ok |-> TRUE, text |-> IntText(neg, intDigits)]
       ELSE [ok |-> FALSE, text |-> <<>>]

\* str(int(float(pnr_str))) for any JSON value; ok is FALSE where Python raises.
pnr_num_str(v) ==
    CASE v.t = "str" -> ParseText(v.s)
      [] v.t = "num" -> [ok |-> TRUE, text |-> IntText(v.neg, v.digits)]
      [] OTHER -> [ok |-> FALSE, text |-> <<>>]

\* str.zfill(width): zeros go after a leading sign.
zfill(s, width) ==
    LET pad == [i \in 1..(width - Len(s)) |-> "0"]
    IN IF Len(s) >= width THEN s
       ELSE IF s # <<>> /\ s[1] \in {"-", "+"}
       THEN <<s[1]>> \o pad \o Tail(s)
       ELSE pad \o s

pnr_to_check(text) == <<"P","N","R">> \o zfill(text, PadWidth)

\* Mutant: x[i] = x[j], the other half of the swap forgotten.
SwapAt_Overwrite(x, i, j) == [x EXCEPT ![i] = x[j]]

\* x[i], x[j] = x[j], x[i]
SwapAt(x, i, j) == [x EXCEPT ![i] = x[j], ![j] = x[i]]

\* random.shuffle: for i from the last index down to the second, swap x[i]
\* with x[j], j drawn from the indices up to i.  draw[i] is the j drawn at i.
RECURSIVE ShuffleFrom(_, _, _)
ShuffleFrom(x, i, draw) ==
    IF i < 2 THEN x ELSE ShuffleFrom(SwapAt(x, i, draw[i]), i - 1, draw)

random_shuffle(x, draw) == ShuffleFrom(x, Len(x), draw)

\* The draws of one shuffle of n items in which at most MaxSwaps steps draw an
\* index other than their own.
SwapLists(n) ==
    LET pairs == {pq \in (2..n) \X (1..n) : pq[2] < pq[1]}
    IN {sw \in UNION {[1..k -> pairs] : k \in 0..MaxSwaps} :
           \A a, b \in DOMAIN sw : a < b => sw[a][1] > sw[b][1]}

DrawOf(sw, n) ==
    [i \in 2..n |-> IF \E k \in DOMAIN sw : sw[k][1] = i
                    THEN sw[CHOOSE k \in DOMAIN sw : sw[k][1] = i][2]
                    ELSE i]

Draws(n) == {DrawOf(sw, n) : sw \in SwapLists(n)}

PnrInvalid ==
    Outcome(Reply(Fulfil("That doesn't seem to be a valid PNR. Please enter a 10-digit PNR.", <<>>)),
            <<>>, <<>>)

\* Mutant: the key itself is shuffled, and the context carries it as pnr.
handle_pnr_verification_ShuffledPnr(r, draw) ==
    IF r.parameters.t # "dict"
    THEN Outcome(Raised, <<>>, <<>>)
    ELSE LET pnr_str == GetOrEmpty(r.parameters.d, "pnr_number")
         IN IF pnr_data = None
            THEN Outcome(Reply(Fulfil("Error: PNR database is not loaded. Please check server logs.", <<>>)),
                         <<>>, <<>>)
            ELSE IF ~pnr_num_str(pnr_str).ok
            THEN PnrInvalid
            ELSE LET key == pnr_to_check(pnr_num_str(pnr_str).text)
                 IN IF key \in DOMAIN pnr_data.rows
                    THEN LET token == random_shuffle(key, draw)
                             train_no == pnr_data.rows[key].Train_No
                         IN IF r.session = Absent
                            THEN PnrInvalid
                            ELSE Outcome(
                                   ReplyCtx(Fulfil("PNR verified for Train {train_no}. Your complaint token is {token}. Please describe your complaint.",
                                                   <<train_no, Str(token)>>),
                                            <<Context(ContextName(r.session, "awaiting-complaint-description"),
                                                      Dict([NoCtxParams EXCEPT
                                                              !.complaint_token = Str(token),
                                                              !.pnr = Str(token)]))>>),
                                   <<>>, <<>>)
                    ELSE Outcome(Reply(Fulfil("That PNR was not found in our records. Please try again.", <<>>)),
                                 <<>>, <<>>)

handle_pnr_verification(r, draw) ==
    IF r.parameters.t # "dict"
    THEN Outcome(Raised, <<>>, <<>>)
    ELSE LET pnr_str == GetOrEmpty(r.parameters.d, "pnr_number")
         IN IF pnr_data = None
            THEN Outcome(Reply(Fulfil("Error: PNR database is not loaded. Please check server logs.", <<>>)),
                         <<>>, <<>>)
            ELSE IF ~pnr_num_str(pnr_str).ok
            THEN PnrInvalid
            ELSE LET key == pnr_to_check(pnr_num_str(pnr_str).text)
                 IN IF key \in DOMAIN pnr_data.rows
                    THEN LET token == random_shuffle(key, draw)
                             train_no == pnr_data.rows[key].Train_No
                         IN IF r.session = Absent
                            THEN PnrInvalid
                            ELSE Outcome(
                                   ReplyCtx(Fulfil("PNR verified for Train {train_no}. Your complaint token is {token}. Please describe your complaint.",
                                                   <<train_no, Str(token)>>),
                                            <<Context(ContextName(r.session, "awaiting-complaint-description"),
                                                      Dict([NoCtxParams EXCEPT
                                                              !.complaint_token = Str(token),
                                                              !.pnr = Str(key)]))>>),
                                   <<>>, <<>>)
                    ELSE Outcome(Reply(Fulfil("That PNR was not found in our records. Please try again.", <<>>)),
                                 <<>>, <<>>)

(***************************************************************************)
(* The complaint classifier.                                               *)
(***************************************************************************)
food_keywords ==
    << <<"f","o","o","d">>,
       <<"o","v","e","r","p","r","i","c","e","d">>,
       <<"o","v","e","r","c","h","a","r","g","e","d">>,
       <<"i","r","c","t","c">>,
       <<"p","a","n","t","r","y">>,
       <<"w","a","t","e","r">>,
       <<"t","e","a">>,
       <<"m","e","a","l">>,
       <<"c","a","t","e","r","i","n","g">>,
       <<"b","a","d"," ","f","o","o","d">> >>

cleaning_keywords ==
    << <<"c","l","e","a","n">>,
       <<"d","i","r","t","y">>,
       <<"f","i","l","t","h","y">>,
       <<"h","y","g","i","e","n","e">>,
       <<"w","a","s","h","r","o","o","m">>,
       <<"t","o","i","l","e","t">>,
       <<"c","o","a","c","h">>,
       <<"s","t","i","n","k">> >>

ticket_keywords ==
    << <<"t","i","c","k","e","t">>,
       <<"t","c">>,
       <<"t","t","e">>,
       <<"t","i","c","k","e","t","l","e","s","s">>,
       <<"n","o"," ","t","i","c","k","e","t">>,
       <<"c","o","l","l","e","c","t","o","r">> >>

\* any(keyword in text for keyword in keywords)
AnyKeyword(text, keywords) ==
    \E k \in DOMAIN keywords : Contains(text, keywords[k])

\* Mutant: the cleaning keywords are tested before the food keywords.
categorize_complaint_CleaningFirst(complaint_text) ==
    LET text == lower(complaint_text)
    IN IF AnyKeyword(text, cleaning_keywords) THEN "Cleaning Department"
       ELSE IF AnyKeyword(text, food_keywords) THEN "IRCTC Department"
       ELSE IF AnyKeyword(text, ticket_keywords) THEN "TICKET COLLECTOR Department"
       ELSE "General Operations"

categorize_complaint(complaint_text) ==
    LET text == lower(complaint_text)
    IN IF AnyKeyword(text, food_keywords) THEN "IRCTC Department"
       ELSE IF AnyKeyword(text, cleaning_keywords) THEN "Cleaning Department"
       ELSE IF AnyKeyword(text, ticket_keywords) THEN "TICKET COLLECTOR Department"
       ELSE "General Operations"

(***************************************************************************)
(* capture_complaint_description                                           *)
(***************************************************************************)
\* Mutant: pnr and token are bound to each other's column.
ComplaintRow_ColumnsSwapped(id, phone_number, pnr, token, station, complaint_text, department) ==
    [complaint_id |-> id, phone_number |-> phone_number, pnr |-> token,
     token |-> pnr, station |-> station, complaint_text |-> complaint_text,
     department |-> department, status |-> "Open"]

ComplaintRow(id, phone_number, pnr, token, station, complaint_text, department) ==
    [complaint_id |-> id, phone_number |-> phone_number, pnr |-> pnr,
     token |-> token, station |-> station, complaint_text |-> complaint_text,
     department |-> department, status |-> "Open"]

Empty == Str(<<>>)

ScanStart ==
    [err |-> FALSE, pnr |-> Empty, token |-> Empty, station |-> Empty,
     phone_number |-> Empty]

\* One pass of the loop body over context c, from the values read so far.
ScanStep(c, acc) ==
    IF c.name.t # "str"
    THEN [acc EXCEPT !.err = TRUE]
    ELSE LET a1 ==
               IF ~NameHas(c.name, "awaiting-complaint-description")
               THEN acc
               ELSE IF c.parameters = Absent
               THEN [acc EXCEPT !.pnr = Empty, !.token = Empty, !.station = Empty]
               ELSE IF c.parameters.t # "dict"
               THEN [acc EXCEPT !.err = TRUE]
               ELSE [acc EXCEPT
                       !.pnr = GetOrEmpty(c.parameters.d, "pnr"),
                       !.token = GetOrEmpty(c.parameters.d, "complaint_token"),
                       !.station = GetOrEmpty(c.parameters.d, "station_confirmed")]
         IN IF a1.err \/ ~NameHas(c.name, "awaiting-location")
            THEN a1
            ELSE IF c.parameters.t # "dict"
            THEN [a1 EXCEPT !.err = TRUE]
            ELSE [a1 EXCEPT !.phone_number = GetOrEmpty(c.parameters.d, "phone_number")]

\* for c in contexts: ... (no break: a later context overwrites an earlier one)
RECURSIVE ScanContexts(_, _, _)
ScanContexts(contexts, i, acc) ==
    IF acc.err \/ i > Len(contexts) THEN acc
    ELSE ScanContexts(contexts, i + 1, ScanStep(contexts[i], acc))

\* Mutant: neither field is cleared.
MutualExclusion_NotApplied(read) == read

\* Mutant: the station is tested first and takes precedence over the pnr.
MutualExclusion_StationFirst(read) ==
    LET pnr == IF Truthy(read.station) THEN Empty ELSE read.pnr
    IN [read EXCEPT !.pnr = pnr,
                    !.token = IF Truthy(read.station) THEN Empty ELSE read.token,
                    !.station = IF Truthy(pnr) THEN Empty ELSE read.station]

\* if pnr: station = ""
\* if station: pnr = ""; token = ""
MutualExclusion(read) ==
    LET station == IF Truthy(read.pnr) THEN Empty ELSE read.station
    IN [read EXCEPT !.station = station,
                    !.pnr = IF Truthy(station) THEN Empty ELSE read.pnr,
                    !.token = IF Truthy(station) THEN Empty ELSE read.token]

\* Mutant: the handler has no try/except and the exception leaves it.
LodgingError_Uncaught == Outcome(Raised, <<>>, <<>>)

LodgingError ==
    Outcome(Reply(Fulfil("Sorry, there was an error lodging your complaint. Please try again.", <<>>)),
            <<>>, <<>>)

handle_complaint_logging(r, dbOk) ==
    IF r.parameters.t # "dict" \/ r.outputContexts.t # "list"
    THEN LodgingError
    ELSE LET complaint_text == GetOrEmpty(r.parameters.d, "complaint_text")
             read == ScanContexts(r.outputContexts.xs, 1, ScanStart)
         IN IF read.err \/ complaint_text.t # "str"
            THEN LodgingError
            ELSE LET department == categorize_complaint(complaint_text.s)
                     station == MutualExclusion(read).station
                     pnr == MutualExclusion(read).pnr
                     token == MutualExclusion(read).token
                     new_complaint_id == lastrowid(complaints)
                 IN IF \/ ~dbOk
                       \/ \E v \in {read.phone_number, pnr, token, station} : ~Bindable(v)
                    THEN LodgingError
                    ELSE Outcome(
                           ReplyCtx(Fulfil("Thank you. Your complaint (ID: C-{new_complaint_id}) has been successfully routed to the {department}.",
                                           <<IntV(new_complaint_id), [t |-> "dept", name |-> department]>>),
                                    <<>>),
                           <<>>,
                           <<ComplaintRow(new_complaint_id, read.phone_number, pnr, token,
                                          station, complaint_text, department)>>)

(***************************************************************************)
(* The webhook routers.                                                    *)
(***************************************************************************)
Intent(name) == [t |-> "str", s |-> name]

HandledIntents ==
    {"capture_user_query", "provide_phone_number", "provide_station_name",
     "user_confirms_station_yes", "provide_pnr", "capture_complaint_description"}

\* app.py, POST /webhook
dialogflow_webhook(r, dbOk, draw) ==
    IF r.intent = Absent
    THEN Outcome(Reply(Fulfil("Error: Invalid request.", <<>>)), <<>>, <<>>)
    ELSE IF r.intent = Intent("capture_user_query")
    THEN handle_query_intent(r, dbOk)
    ELSE IF r.intent = Intent("provide_phone_number")
    THEN Outcome(Reply(Fulfil("Error: Phone handler was called, but should be static.", <<>>)),
                 <<>>, <<>>)
    ELSE IF r.intent = Intent("provide_station_name")
    THEN handle_station_search(r)
    ELSE IF r.intent = Intent("user_confirms_station_yes")
    THEN handle_station_confirmed(r)
    ELSE IF r.intent = Intent("provide_pnr")
    THEN handle_pnr_verification(r, draw)
    ELSE IF r.intent = Intent("capture_complaint_description")
    THEN handle_complaint_logging(r, dbOk)
    ELSE Outcome(Reply(Fulfil("Error: Unrecognized intent in webhook.", <<>>)), <<>>, <<>>)

\* Mutant: no else branch; every named intent is taken for capture_user_query.
main_dialogflow_webhook_NoFallback(r) ==
    IF r.intent = Absent
    THEN Outcome(Reply(Fulfil("Error: Invalid request format.", <<>>)), <<>>, <<>>)
    ELSE main_handle_query_intent(r)

\* main.py, the cloud-function entry point
main_dialogflow_webhook(r) ==
    IF r.intent = Absent
    THEN Outcome(Reply(Fulfil("Error: Invalid request format.", <<>>)), <<>>, <<>>)
    ELSE IF r.intent = Intent("capture_user_query")
    THEN main_handle_query_intent(r)
    ELSE Outcome(Reply(Fulfil("Error: Unrecognized intent.", <<>>)), <<>>, <<>>)

\* The text handed to random.shuffle by request r, or the empty text when r
\* does not reach the shuffle.
ShuffleInput(r) ==
    IF /\ r.intent = Intent("provide_pnr")
       /\ r.parameters.t = "dict"
       /\ pnr_data # None
       /\ pnr_num_str(GetOrEmpty(r.parameters.d, "pnr_number")).ok
    THEN LET key == pnr_to_check(pnr_num_str(GetOrEmpty(r.parameters.d, "pnr_number")).text)
         IN IF key \in DOMAIN pnr_data.rows THEN key ELSE <<>>
    ELSE <<>>

\* One request served by program: the rows the handler inserted are in the
\* tables, the response is what the client receives (Raised: the framework's
\* error page for an uncaught exception).
Handle(program, r, out) ==
    /\ Len(queries) + Len(complaints) + Len(out.qrows) + Len(out.crows) <= MaxRecords
    /\ queries' = queries \o out.qrows
    /\ complaints' = complaints \o out.crows
    /\ request' = [program |-> program, json |-> r]
    /\ response' = out.body
    /\ UNCHANGED <<pnr_data, station_data_raw, threads, writer, retry>>

Serve(program, r, out) == Handle(program, r, out) /\ UNCHANGED turns

(***************************************************************************)
(* The stores the service is started with.  The CSV files are data, not    *)
(* code: the PNR table holds the key of the documented scenario and one    *)
(* key with leading zeros; the station table holds three rows, the third   *)
(* named like the code of the second.                                      *)
(***************************************************************************)
Pnr1234567890 == <<"P","N","R","1","2","3","4","5","6","7","8","9","0">>
Pnr0000000011 == <<"P","N","R","0","0","0","0","0","0","0","0","1","1">>

PnrFrame ==
    [t |-> "frame",
     rows |-> [k \in {Pnr1234567890, Pnr0000000011} |->
                 [Train_No |-> IF k = Pnr1234567890 THEN IntV(12951) ELSE IntV(12002)]]]

NewDelhi == <<"N","e","w"," ","D","e","l","h","i">>
Howrah == <<"H","o","w","r","a","h">>

StationFrame ==
    [t |-> "frame",
     rows |-> << [station |-> NewDelhi, id_code |-> <<"N","D","L","S">>],
                 [station |-> Howrah, id_code |-> <<"H","W","H">>],
                 [station |-> <<"H","w","h">>, id_code |-> <<"H","X">>] >>]

\* A server thread: where it is in the handler, the request it serves, what
\* its own connection's INSERT produced (the row, and the body built from the
\* cursor's lastrowid), and the response it has sent.
IdleThread == [pc |-> "idle", json |-> None, out |-> None, response |-> None]

Init ==
    /\ pnr_data \in {None, PnrFrame}
    /\ station_data_raw \in {None, StationFrame}
    /\ queries = <<>>
    /\ complaints = <<>>
    /\ request = None
    /\ response = None
    /\ threads = [t \in 1..MaxThreads |-> IdleThread]
    /\ writer = 0
    /\ retry = None
    /\ turns = <<>>

(***************************************************************************)
(* The requests of the model.                                              *)
(***************************************************************************)
Session1 == Str("projects/railmadad/agent/sessions/s1")

\* Sequences of at most n elements of S.
SeqUpTo(S, n) == UNION {[1..k -> S] : k \in 0..n}

TrainLate == <<"t","r","a","i","n"," ","l","a","t","e">>
NoWaterInCoach == <<"n","o"," ","w","a","t","e","r"," ","i","n"," ","c","o","a","c","h">>
Phone9876543210 == <<"9","8","7","6","5","4","3","2","1","0">>

QueryParams ==
    {Absent, ListV, Dict(NoParams),
     Param("user_query", Str(TrainLate)),
     Param("user_query", Null), Param("user_query", ListV)}

QueryRequests ==
    {Request(Intent("capture_user_query"), p, Absent, Session1, Absent) : p \in QueryParams}

PhoneTexts ==
    {<<"c","a","l","l"," ","9","8","7","6","5","4","3","2","1","0"," ","n","o","w">>,
     <<"9","8","7","6","5","4","3","2","1">>,
     <<>>}

PhoneRequests ==
    {Request(Intent("provide_phone_number"), Dict(NoParams), List(<<>>), Session1, Str(q)) :
        q \in PhoneTexts}

StationParams ==
    {Absent, ListV, Dict(NoParams), Param("station_input", Null)}
    \cup {Param("station_input", Str(x)) :
            x \in {<<"\"","N","D","L","S","\"">>, <<"n","e","w"," ","d","e","l","h","i">>, <<"h","w","h">>, <<"P","u","n","e">>, <<>>}}

StationRequests ==
    {Request(Intent("provide_station_name"), p, List(<<>>), Session1, Absent) :
        p \in StationParams}
    \cup {Request(Intent("provide_station_name"), Param("station_input", Str(x)),
                  List(<<>>), Absent, Absent) : x \in {<<"h","w","h">>, <<"P","u","n","e">>}}

CtxName(kind) == ContextName(Session1, kind)

StationCtx(v) ==
    Context(CtxName("awaiting-station-confirmation"),
            Dict([NoCtxParams EXCEPT !.station_confirmed = v]))

LocationCtx ==
    Context(CtxName("awaiting-location"),
            Dict([NoCtxParams EXCEPT !.phone_number = Str(Phone9876543210)]))

ConfirmContextLists ==
    {<<>>,
     <<StationCtx(Str(NewDelhi))>>,
     <<StationCtx(Str(NewDelhi)), StationCtx(Str(Howrah))>>,
     <<LocationCtx, StationCtx(Str(Howrah))>>,
     <<StationCtx(Absent)>>,
     <<Context(CtxName("awaiting-station-confirmation"), Absent)>>,
     <<LocationCtx>>,
     <<Context(Absent, Absent), StationCtx(Str(NewDelhi))>>,
     <<StationCtx(Str(NewDelhi)), Context(Absent, Absent)>>}

ConfirmRequests ==
    {Request(Intent("user_confirms_station_yes"), Dict(NoParams), c, Session1, Absent) :
        c \in {Absent, Null} \cup {List(xs) : xs \in ConfirmContextLists}}
    \cup {Request(Intent("user_confirms_station_yes"), Dict(NoParams),
                  List(<<StationCtx(Str(NewDelhi))>>), Absent, Absent)}

PnrValues ==
    {Absent, Null, ListV, Num(FALSE, <<"1","1">>, TRUE),
     Num(FALSE, <<"1","2","3","4","5","6","7","8","9","0">>, FALSE)}
    \cup {Str(x) : x \in {<<"1","2","3","4","5","6","7","8","9","0">>,
                          <<"1","1",".","5">>, <<"-","5">>,
                          <<"1","2","3","4","5","6","7","8","9","0","1">>,
                          <<"1","x">>, <<"9","9">>}}

PnrRequests ==
    {Request(Intent("provide_pnr"), p, List(<<>>), Session1, Absent) :
        p \in {Absent, ListV} \cup {Param("pnr_number", v) : v \in PnrValues}}
    \cup {Request(Intent("provide_pnr"), Param("pnr_number", Str(x)), List(<<>>), Absent, Absent) :
            x \in {<<"1","1">>, <<"9","9">>}}

TokenOf1234567890 == <<"0","P","N","9","R","8","1","7","2","3","6","5","4">>

ComplaintCtx(pnr, token, station) ==
    Context(CtxName("awaiting-complaint-description"),
            Dict([NoCtxParams EXCEPT !.pnr = pnr, !.complaint_token = token,
                                     !.station_confirmed = station]))

PnrCtx == ComplaintCtx(Str(Pnr1234567890), Str(TokenOf1234567890), Absent)
StationOnlyCtx == ComplaintCtx(Absent, Absent, Str(NewDelhi))
BothCtx == ComplaintCtx(Str(Pnr1234567890), Str(TokenOf1234567890), Str(NewDelhi))

ComplaintContextLists ==
    {<<>>,
     <<PnrCtx>>,
     <<StationOnlyCtx>>,
     <<BothCtx>>,
     <<LocationCtx, BothCtx>>,
     <<PnrCtx, StationOnlyCtx>>,
     <<StationOnlyCtx, PnrCtx>>,
     <<ComplaintCtx(Str(<<>>), Str(TokenOf1234567890), Str(NewDelhi))>>,
     <<ComplaintCtx(ListV, Absent, Str(NewDelhi))>>,
     <<Context(CtxName("awaiting-complaint-description"), Absent)>>,
     <<Context(CtxName("awaiting-complaint-description"), ListV)>>,
     <<Context(CtxName("awaiting-location"), Absent)>>,
     <<PnrCtx, Context(Null, Dict(NoCtxParams))>>}

ComplaintRequests ==
    {Request(Intent("capture_complaint_description"), Param("complaint_text", Str(NoWaterInCoach)),
             c, Session1, Absent) :
        c \in {Absent} \cup {List(xs) : xs \in ComplaintContextLists}}
    \cup {Request(Intent("capture_complaint_description"), p, List(<<PnrCtx>>), Session1, Absent) :
            p \in {Absent, ListV, Param("complaint_text", Null)}}

OtherRequests ==
    {Request(i, Dict(NoParams), List(<<>>), Session1, Absent) :
        i \in {Absent, Null, Intent("verify_pnr")}}

\* The draws of the shuffle used where the conversation, not the token, is
\* under study: every step keeps its item, every step swaps with the first
\* item, every step swaps with the item before it.
FlowDraws(n) ==
    {[i \in 2..n |-> i], [i \in 2..n |-> 1], [i \in 2..n |-> i - 1]}

(***************************************************************************)
(* Actions: one per intent of app.py, one for main.py.                     *)
(***************************************************************************)
CaptureUserQuery ==
    \E r \in QueryRequests, dbOk \in BOOLEAN :
        Serve("app", r, dialogflow_webhook(r, dbOk, <<>>))

ProvidePhoneNumber ==
    \E r \in PhoneRequests : Serve("app", r, dialogflow_webhook(r, TRUE, <<>>))

ProvideStationName ==
    \E r \in StationRequests : Serve("app", r, dialogflow_webhook(r, TRUE, <<>>))

UserConfirmsStationYes ==
    \E r \in ConfirmRequests : Serve("app", r, dialogflow_webhook(r, TRUE, <<>>))

ProvidePnr ==
    \E r \in PnrRequests :
        \E draw \in FlowDraws(Len(ShuffleInput(r))) :
            Serve("app", r, dialogflow_webhook(r, TRUE, draw))

CaptureComplaintDescription ==
    \E r \in ComplaintRequests, dbOk \in BOOLEAN :
        Serve("app", r, dialogflow_webhook(r, dbOk, <<>>))

OtherIntent ==
    \E r \in OtherRequests : Serve("app", r, dialogflow_webhook(r, TRUE, <<>>))

MainWebhook ==
    \E r \in QueryRequests \cup OtherRequests
              \cup {Request(Intent("provide_pnr"), Param("pnr_number", Str(<<"9","9">>)),
                            List(<<>>), Session1, Absent)} :
        Serve("main", r, main_dialogflow_webhook(r))

Next ==
    \/ CaptureUserQuery
    \/ ProvidePhoneNumber
    \/ ProvideStationName
    \/ UserConfirmsStationYes
    \/ ProvidePnr
    \/ CaptureComplaintDescription
    \/ OtherIntent
    \/ MainWebhook

Spec == Init /\ [][Next]_vars

(***************************************************************************)
(* provide_pnr alone, on the first request after startup, over every text  *)
(* of a sign, at most MaxPnrDigits digits 0 or 1 and a fraction, and over  *)
(* every shuffle of at most MaxSwaps swaps.                                *)
(***************************************************************************)
PnrTexts ==
    {sign \o ds \o frac :
        sign \in {<<>>, <<"-">>},
        ds \in SeqUpTo({"0", "1"}, MaxPnrDigits),
        frac \in {<<>>, <<".","5">>, <<".","0">>}}
    \cup {<<"1","x">>, <<" ","1","1"," ">>, <<"+","1","1">>, <<"1"," ","1">>}

RichPnrRequests ==
    {Request(Intent("provide_pnr"), Param("pnr_number", v), List(<<>>), Session1, Absent) :
        v \in PnrValues \cup {Str(x) : x \in PnrTexts}}

VerifyPnr ==
    /\ request = None
    /\ \E r \in RichPnrRequests :
          \E draw \in Draws(Len(ShuffleInput(r))) :
              Serve("app", r, dialogflow_webhook(r, TRUE, draw))

SpecPnr == Init /\ [][VerifyPnr]_vars

(***************************************************************************)
(* The classifier alone: one complaint, on the first request after         *)
(* startup, whose text is made of at most MaxFragments fragments.          *)
(***************************************************************************)
Fragments ==
    {<<"f","o","o","d">>, <<"D","i","r","t","y">>, <<"T","C">>, <<"w","a">>,
     <<"t","e","r">>, <<" ">>, <<"l","a","t","e">>, <<"c","o","a","c","h">>,
     <<"b","a","d">>, <<"T","i","c","k","e","t">>}

RECURSIVE Flatten(_)
Flatten(fs) == IF fs = <<>> THEN <<>> ELSE Head(fs) \o Flatten(Tail(fs))

ClassifyTexts == {Flatten(fs) : fs \in SeqUpTo(Fragments, MaxFragments)}

ClassifyRequests ==
    {Request(Intent("capture_complaint_description"), Param("complaint_text", Str(x)),
             List(<<>>), Session1, Absent) : x \in ClassifyTexts}

Classify ==
    /\ request = None
    /\ \E r \in ClassifyRequests : Serve("app", r, dialogflow_webhook(r, TRUE, <<>>))

SpecClassify == Init /\ [][Classify]_vars

(***************************************************************************)
(* provide_station_name alone, on the first request after startup: names   *)
(* and codes in several letter cases with up to MaxQuotes double quotes on *)
(* each side, and texts that are no station.                               *)
(***************************************************************************)
UpperChar(c) ==
    IF \E i \in DOMAIN LowerCase : LowerCase[i] = c
    THEN UpperCase[CHOOSE i \in DOMAIN LowerCase : LowerCase[i] = c]
    ELSE c

\* The text in lower case, in upper case, and with every other letter raised.
CaseMixes(x) ==
    {[i \in DOMAIN x |-> LowerChar(x[i])],
     [i \in DOMAIN x |-> UpperChar(x[i])],
     [i \in DOMAIN x |-> IF i % 2 = 1 THEN UpperChar(x[i]) ELSE LowerChar(x[i])],
     [i \in DOMAIN x |-> IF i % 2 = 0 THEN UpperChar(x[i]) ELSE LowerChar(x[i])],
     x}

Quotes(n) == [i \in 1..n |-> "\""]

StationTexts ==
    {Quotes(a) \o x \o Quotes(b) :
        a \in 0..MaxQuotes, b \in 0..MaxQuotes,
        x \in UNION {CaseMixes(y) :
                 y \in {NewDelhi, Howrah, <<"N","D","L","S">>, <<"H","W","H">>,
                        <<"H","X">>, <<"P","u","n","e">>, <<"N","D","\"","L","S">>,
                        <<" ","N","D","L","S">>, <<"N","D","L">>, <<>>}}}

RichStationRequests ==
    {Request(Intent("provide_station_name"), Param("station_input", Str(x)),
             List(<<>>), Session1, Absent) : x \in StationTexts}

SearchStation ==
    /\ request = None
    /\ \E r \in RichStationRequests : Serve("app", r, dialogflow_webhook(r, TRUE, <<>>))

SpecStation == Init /\ [][SearchStation]_vars

(***************************************************************************)
(* Requests naming an intent that the webhook does not handle, with        *)
(* payloads made for the handled intents.                                  *)
(***************************************************************************)
UnhandledNames ==
    {Null, Intent(""), Intent("verify_pnr"), Intent("Capture_User_Query")}

UnhandledRequests ==
    {Request(i, p, c, s, Absent) :
        i \in UnhandledNames,
        p \in {Absent, ListV, Param("user_query", Str(TrainLate)),
               Param("complaint_text", Str(NoWaterInCoach))},
        c \in {Absent, List(<<>>), List(<<LocationCtx, BothCtx>>)},
        s \in {Absent, Session1}}

Unhandled ==
    \E r \in UnhandledRequests :
        \/ Serve("app", r, dialogflow_webhook(r, TRUE, <<>>))
        \/ Serve("main", r, main_dialogflow_webhook(r))

NextFallback ==
    \/ Unhandled
    \/ CaptureUserQuery

SpecFallback == Init /\ [][NextFallback]_vars

(***************************************************************************)
(* A conversation.  The service keeps no session: what one turn knows of   *)
(* the turns before it is the contexts the client sends back.  Every       *)
(* context is emitted with lifespanCount 1, so the prior contexts of a     *)
(* turn are exactly the contexts emitted by the turn before it.  turns is  *)
(* the conversation so far, one exchange per turn.                         *)
(***************************************************************************)
\* The contexts the last response emitted, as the client sends them back.
Echoed ==
    IF response \in {None, Raised} THEN List(<<>>)
    ELSE IF response.outputContexts.t # "list" THEN List(<<>>)
    ELSE response.outputContexts

CallNumber == <<"c","a","l","l"," ","9","8","7","6","5","4","3","2","1","0">>

\* What the user may say in a turn: the intent with its parameters and text.
Utterances ==
    {[intent |-> "capture_user_query", parameters |-> Param("user_query", Str(TrainLate)),
      queryText |-> Absent],
     [intent |-> "provide_phone_number", parameters |-> Dict(NoParams),
      queryText |-> Str(CallNumber)],
     [intent |-> "user_confirms_station_yes", parameters |-> Dict(NoParams),
      queryText |-> Absent],
     [intent |-> "capture_complaint_description",
      parameters |-> Param("complaint_text", Str(NoWaterInCoach)), queryText |-> Absent]}
    \cup {[intent |-> "provide_station_name", parameters |-> Param("station_input", Str(x)),
           queryText |-> Absent] : x \in {<<"h","w","h">>, <<"P","u","n","e">>}}
    \cup {[intent |-> "provide_pnr", parameters |-> Param("pnr_number", Str(x)),
           queryText |-> Absent] :
             x \in {<<"1","2","3","4","5","6","7","8","9","0">>, <<"1","1",".","5">>,
                    <<"9","9">>}}

Turn ==
    /\ Len(turns) < MaxTurns
    /\ \E u \in Utterances :
          LET r == Request(Intent(u.intent), u.parameters, Echoed, Session1, u.queryText)
          IN \E draw \in FlowDraws(Len(ShuffleInput(r))) :
                /\ Handle("app", r, dialogflow_webhook(r, TRUE, draw))
                /\ turns' = Append(turns, [json |-> r,
                                            response |-> dialogflow_webhook(r, TRUE, draw).body])

SpecEcho == Init /\ [][Turn]_vars

(***************************************************************************)
(* Retries.  Context is held by the client, so the client can keep an      *)
(* exchange and send the same request again later, after other requests    *)
(* have been served; retry is the exchange it kept.                        *)
(***************************************************************************)
RetryIntents ==
    {Intent("provide_station_name"), Intent("user_confirms_station_yes"),
     Intent("provide_pnr")}

\* The client keeps the exchange just made, to send its request again.
Keep ==
    /\ retry = None
    /\ request # None
    /\ request.program = "app"
    /\ request.json.intent \in RetryIntents
    /\ retry' = [json |-> request.json, response |-> response]
    /\ UNCHANGED <<pnr_data, station_data_raw, queries, complaints, request,
                   response, threads, writer, turns>>

NextRetry ==
    \/ ProvideStationName
    \/ UserConfirmsStationYes
    \/ ProvidePnr
    \/ CaptureUserQuery
    \/ Keep

SpecRetry == Init /\ [][NextRetry]_vars

(***************************************************************************)
(* Concurrent requests.  The server runs each request on a thread of its   *)
(* own; a handler shares nothing with the others but the database file.    *)
(* Every handler opens its own connection; its INSERT takes the write lock *)
(* of the file and sets the lastrowid of its own cursor, its commit makes   *)
(* the row visible and releases the lock, and the response is built from   *)
(* that cursor's lastrowid.  A handler that finds the file locked waits,   *)
(* and gives up with an exception when the wait times out.                 *)
(***************************************************************************)
ThreadMark == <<"1","2","3","4","5","6","7","8","9">>

\* The requests thread t may serve: each thread's texts are its own.
ThreadRequests(t) ==
    {Request(Intent("capture_user_query"),
             Param("user_query", Str(TrainLate \o <<" ", ThreadMark[t]>>)),
             Absent, Session1, Absent),
     Request(Intent("capture_complaint_description"),
             Param("complaint_text", Str(NoWaterInCoach \o <<" ", ThreadMark[t]>>)),
             List(<<PnrCtx>>), Session1, Absent),
     Request(Intent("capture_user_query"), Dict(NoParams), Absent, Session1, Absent)}

\* Mutant: the INSERT does not wait for the writer's commit.
WriteLockFree_Unserialized(t) == TRUE

\* cursor.execute("INSERT ..."): the file has no uncommitted writer (writer
\* is the thread holding the write lock, 0 when none does).
WriteLockFree(t) == writer = 0

\* What the handler of thread t does on the tables its connection sees.
ThreadOutcome(t) == dialogflow_webhook(threads[t].json, TRUE, <<>>)

\* request.get_json(): a request arrives on an idle thread.
Receive(t) ==
    /\ threads[t].pc = "idle"
    /\ \E r \in ThreadRequests(t) :
          threads' = [threads EXCEPT ![t] = [@ EXCEPT !.pc = "running", !.json = r]]
    /\ UNCHANGED <<pnr_data, station_data_raw, queries, complaints, request,
                   response, writer, retry, turns>>

\* The handler ends before any INSERT (a parameter is missing).
Reject(t) ==
    /\ threads[t].pc = "running"
    /\ ThreadOutcome(t).qrows = <<>> /\ ThreadOutcome(t).crows = <<>>
    /\ threads' = [threads EXCEPT ![t] =
                      [@ EXCEPT !.pc = "done", !.response = ThreadOutcome(t).body]]
    /\ UNCHANGED <<pnr_data, station_data_raw, queries, complaints, request,
                   response, writer, retry, turns>>

\* cursor.execute("INSERT ..."): the row gets the next identifier of the
\* table as this connection sees it, and the cursor keeps it as lastrowid.
Execute(t) ==
    /\ threads[t].pc = "running"
    /\ ThreadOutcome(t).qrows # <<>> \/ ThreadOutcome(t).crows # <<>>
    /\ WriteLockFree(t)
    /\ writer' = t
    /\ threads' = [threads EXCEPT ![t] =
                      [@ EXCEPT !.pc = "executed", !.out = ThreadOutcome(t)]]
    /\ UNCHANGED <<pnr_data, station_data_raw, queries, complaints, request, response,
                   retry, turns>>

\* cursor.execute raises "database is locked" after waiting for another
\* writer: capture_user_query lets it escape, the complaint handler answers
\* with its error message.
Locked(t) ==
    /\ threads[t].pc = "running"
    /\ ThreadOutcome(t).qrows # <<>> \/ ThreadOutcome(t).crows # <<>>
    /\ writer \notin {0, t}
    /\ threads' = [threads EXCEPT ![t] =
                      [@ EXCEPT !.pc = "done",
                                !.response = dialogflow_webhook(threads[t].json, FALSE, <<>>).body]]
    /\ UNCHANGED <<pnr_data, station_data_raw, queries, complaints, request,
                   response, writer, retry, turns>>

\* conn.commit()
Commit(t) ==
    /\ threads[t].pc = "executed"
    /\ queries' = queries \o threads[t].out.qrows
    /\ complaints' = complaints \o threads[t].out.crows
    /\ writer' = IF writer = t THEN 0 ELSE writer
    /\ threads' = [threads EXCEPT ![t] = [@ EXCEPT !.pc = "committed"]]
    /\ UNCHANGED <<pnr_data, station_data_raw, request, response, retry, turns>>

\* new_id = cursor.lastrowid; conn.close(); return the response.
Respond(t) ==
    /\ threads[t].pc = "committed"
    /\ threads' = [threads EXCEPT ![t] =
                      [@ EXCEPT !.pc = "done", !.response = threads[t].out.body]]
    /\ UNCHANGED <<pnr_data, station_data_raw, queries, complaints, request,
                   response, writer, retry, turns>>

NextThreads ==
    \E t \in 1..MaxThreads :
        \/ Receive(t)
        \/ Reject(t)
        \/ Execute(t)
        \/ Locked(t)
        \/ Commit(t)
        \/ Respond(t)

SpecThreads == Init /\ [][NextThreads]_vars

(***************************************************************************)
(* Properties.                                                             *)
(***************************************************************************)
\* The last request was served by program and named this intent.
Served(program, name) ==
    /\ request # None
    /\ request.program = program
    /\ request.json.intent = Intent(name)

\* A field of a stored row or of a context that holds something.
NonEmpty(v) == v \notin {Empty, Null, Absent}

C2_NoHandlerRaises ==
    (/\ request # None
     /\ request.program = "app"
     /\ request.json.intent.t = "str"
     /\ request.json.intent.s \in HandledIntents)
    => response # Raised

IsDigit(c) == c \in Digits

\* The decimal digits of a text, in order.
DigitsOf(text) == SelectSeq(text, IsDigit)

\* C3: provide_phone_number emits an awaiting-location context carrying the
\* digits of the utterance exactly when there are 10 of them, and otherwise
\* answers with a static message and no context.
C3_PhoneNumber ==
    (Served("app", "provide_phone_number") /\ request.json.queryText.t = "str")
    => LET digits == DigitsOf(request.json.queryText.s)
       IN IF Len(digits) = 10
          THEN /\ response.outputContexts.t = "list"
               /\ \E i \in DOMAIN response.outputContexts.xs :
                     LET c == response.outputContexts.xs[i]
                     IN /\ NameHas(c.name, "awaiting-location")
                        /\ c.parameters.d.phone_number = Str(digits)
          ELSE /\ response.outputContexts = Absent
               /\ response.fulfillmentText.args = <<>>

\* C4: a capture_complaint_description turn either appends exactly one
\* Complaint Record, holding the request's complaint_text and the
\* classifier's department for it under a fresh identifier, and answers with
\* that identifier as C-<id>, that department and an empty context list; or
\* it appends nothing and answers with the static lodging-error message.
C4_Step ==
    (request'.program = "app"
     /\ request'.json.intent = Intent("capture_complaint_description"))
    => \/ /\ Len(complaints') = Len(complaints) + 1
          /\ SubSeq(complaints', 1, Len(complaints)) = complaints
          /\ request'.json.parameters.t = "dict"
          /\ LET row == complaints'[Len(complaints')]
             IN /\ row.complaint_text =
                       GetOrEmpty(request'.json.parameters.d, "complaint_text")
                /\ row.department = categorize_complaint(row.complaint_text.s)
                /\ \A i \in DOMAIN complaints :
                       complaints[i].complaint_id # row.complaint_id
                /\ response'.fulfillmentText =
                       Fulfil("Thank you. Your complaint (ID: C-{new_complaint_id}) has been successfully routed to the {department}.",
                              <<IntV(row.complaint_id),
                                [t |-> "dept", name |-> row.department]>>)
                /\ response'.outputContexts = List(<<>>)
       \/ /\ complaints' = complaints
          /\ response' =
                Reply(Fulfil("Sorry, there was an error lodging your complaint. Please try again.", <<>>))

C4_ComplaintLogged == [][C4_Step]_vars

\* A second complaint has been stored and answered with its identifier.
C4_Witness ==
    /\ Served("app", "capture_complaint_description")
    /\ Len(complaints) = 2
    /\ response.outputContexts = List(<<>>)
    /\ response.fulfillmentText.args[1] = IntV(2)

\* C5: a capture_user_query request carrying a text user_query, when it is
\* answered at all, has appended exactly one Query Record with that text and
\* is answered with that record's identifier as Q-<id>; the earlier Query
\* Records are as they were.
C5_Step ==
    (/\ request'.json.intent = Intent("capture_user_query")
     /\ request'.json.parameters.t = "dict"
     /\ request'.json.parameters.d.user_query.t = "str"
     /\ response' # Raised)
    => /\ Len(queries') = Len(queries) + 1
       /\ SubSeq(queries', 1, Len(queries)) = queries
       /\ queries'[Len(queries')].query_text = request'.json.parameters.d.user_query
       /\ response'.fulfillmentText.args = <<IntV(queries'[Len(queries')].query_id)>>

C5_QueryRecorded == [][C5_Step]_vars

\* The value of pnr_number in the last request ('' when missing).
PnrNumber == GetOrEmpty(request.json.parameters.d, "pnr_number")

\* The last request is a provide_pnr request that reached the conversion.
PnrConverted ==
    /\ Served("app", "provide_pnr")
    /\ request.json.parameters.t = "dict"
    /\ pnr_data # None

\* C6: every provide_pnr input that passes the integer conversion gives a
\* lookup key of 13 characters, "PNR" followed by 10 decimal digits.
C6_KeyFormat ==
    (PnrConverted /\ pnr_num_str(PnrNumber).ok)
    => LET key == pnr_to_check(pnr_num_str(PnrNumber).text)
       IN /\ Len(key) = 13
          /\ SubSeq(key, 1, 3) = <<"P","N","R">>
          /\ \A i \in 4..Len(key) : key[i] \in Digits

\* A number with a fraction that is not zero.
Fractional(v) ==
    \/ v.t = "num" /\ v.frac
    \/ /\ v.t = "str"
       /\ \E i \in DOMAIN v.s :
             /\ v.s[i] = "."
             /\ \E j \in (i + 1)..Len(v.s) : v.s[j] \in Digits \ {"0"}

\* C7: a pnr_number that is not an integer, because it does not convert or
\* because it has a fraction, is answered with the static invalid-PNR message
\* and no context.
C7_NonIntegerRejected ==
    (PnrConverted /\ (~pnr_num_str(PnrNumber).ok \/ Fractional(PnrNumber)))
    => response =
          Reply(Fulfil("That doesn't seem to be a valid PNR. Please enter a 10-digit PNR.", <<>>))

\* How often character c occurs in text.
Count(text, c) == Cardinality({i \in DOMAIN text : text[i] = c})

\* C8: the context emitted by a successful provide_pnr carries a pnr that is
\* a key of the PNR store, built from the input, and a complaint_token with
\* the same 13 characters, each as often as in the key.
C8_TokenPermutation ==
    (PnrConverted /\ response.outputContexts # Absent)
    => /\ Len(response.outputContexts.xs) = 1
       /\ LET c == response.outputContexts.xs[1]
              pnr == c.parameters.d.pnr
              token == c.parameters.d.complaint_token
          IN /\ NameHas(c.name, "awaiting-complaint-description")
             /\ pnr.s \in DOMAIN pnr_data.rows
             /\ pnr.s = <<"P","N","R">> \o zfill(pnr_num_str(PnrNumber).text, PadWidth)
             /\ Len(token.s) = 13
             /\ Len(pnr.s) = 13
             /\ \A ch \in {pnr.s[i] : i \in DOMAIN pnr.s}
                       \cup {token.s[i] : i \in DOMAIN token.s} :
                    Count(token.s, ch) = Count(pnr.s, ch)

\* A PNR was verified and the token is not the key itself.
C8_Witness ==
    /\ PnrConverted
    /\ response.outputContexts # Absent
    /\ response.outputContexts.xs[1].parameters.d.complaint_token
           # response.outputContexts.xs[1].parameters.d.pnr

\* Some keyword of the list occurs in the lower-cased text.
Mentions(text, keywords) ==
    \E k \in DOMAIN keywords :
        \E i \in 1..Len(text) :
            /\ i + Len(keywords[k]) - 1 <= Len(text)
            /\ \A j \in 1..Len(keywords[k]) : LowerChar(text[i + j - 1]) = keywords[k][j]

StationMiss(j) ==
    /\ j.intent = Intent("provide_station_name")
    /\ j.parameters.t = "dict"
    /\ GetOrEmpty(j.parameters.d, "station_input").t = "str"
    /\ station_data_raw # None
    /\ \A i \in DOMAIN station_data_raw.rows :
          LET typed == strip(lower(GetOrEmpty(j.parameters.d, "station_input").s), "\"")
          IN /\ lower(station_data_raw.rows[i].station) # typed
             /\ lower(station_data_raw.rows[i].id_code) # typed

\* Request j gives a pnr_number that does not convert, or whose key is not
\* in the PNR store.
PnrMiss(j) ==
    /\ j.intent = Intent("provide_pnr")
    /\ j.parameters.t = "dict"
    /\ pnr_data # None
    /\ LET n == pnr_num_str(GetOrEmpty(j.parameters.d, "pnr_number"))
       IN ~n.ok \/ pnr_to_check(n.text) \notin DOMAIN pnr_data.rows

\* C10: a provide_station_name turn that finds no station, and a provide_pnr
\* turn whose input is malformed or whose key is absent, are answered with a
\* static message and no output contexts, and add no record to either table.
C10_Step ==
    (request'.program = "app" /\ (StationMiss(request'.json) \/ PnrMiss(request'.json)))
    => /\ response' # Raised
       /\ response'.outputContexts = Absent
       /\ response'.fulfillmentText.args = <<>>
       /\ response'.fulfillmentText.tmpl \in
             {"Sorry, I couldn't find that station. Please try the name or code again.",
              "That PNR was not found in our records. Please try again.",
              "That doesn't seem to be a valid PNR. Please enter a 10-digit PNR."}
       /\ queries' = queries
       /\ complaints' = complaints

C10_ErrorTurnsKeepState == [][C10_Step]_vars

\* A station was not found while records were already stored.
C10_Witness ==
    /\ request # None
    /\ request.program = "app"
    /\ StationMiss(request.json)
    /\ response.outputContexts = Absent
    /\ Len(queries) + Len(complaints) > 0

\* The first context of the list whose name contains kind; 0 when none does.
FirstNamed(ctxs, kind) ==
    LET named == {i \in DOMAIN ctxs : NameHas(ctxs[i].name, kind)}
    IN IF named = {} THEN 0
       ELSE CHOOSE i \in named : \A j \in named : i <= j

\* The last request names the intent and is well formed: its prior contexts
\* are a list of contexts with text names and parameter maps, and it names
\* its session.
WellFormed(name) ==
    /\ Served("app", name)
    /\ request.json.session # Absent
    /\ request.json.outputContexts.t = "list"
    /\ \A i \in DOMAIN request.json.outputContexts.xs :
          /\ request.json.outputContexts.xs[i].name.t = "str"
          /\ request.json.outputContexts.xs[i].parameters.t = "dict"

Unknown == Str(<<"U","n","k","n","o","w","n">>)

\* C11: user_confirms_station_yes always emits one
\* awaiting-complaint-description context; its station_confirmed is that of
\* the first awaiting-station-confirmation context of the request, and is
\* "Unknown" when the request has no such context or that context has no
\* station_confirmed parameter.
C11_ConfirmDefaultsUnknown ==
    WellFormed("user_confirms_station_yes")
    => LET ctxs == request.json.outputContexts.xs
           k == FirstNamed(ctxs, "awaiting-station-confirmation")
           expected == IF k = 0 \/ ctxs[k].parameters.d.station_confirmed = Absent
                       THEN Unknown
                       ELSE ctxs[k].parameters.d.station_confirmed
       IN /\ response.outputContexts.t = "list"
          /\ Len(response.outputContexts.xs) = 1
          /\ NameHas(response.outputContexts.xs[1].name, "awaiting-complaint-description")
          /\ response.outputContexts.xs[1].parameters.d.station_confirmed = expected

\* Thread t has answered with the identifier of a stored row.
Reported(t) ==
    /\ threads[t].pc = "done"
    /\ threads[t].response # Raised
    /\ threads[t].response.fulfillmentText.args # <<>>

\* The identifier thread t reported.
ReportedId(t) == threads[t].response.fulfillmentText.args[1].n

\* C12: under every interleaving of concurrent capture_user_query and
\* capture_complaint_description requests, no two rows of a table have the
\* same identifier, and the identifier a response reports is that of the row
\* holding the text of the same request.
C12_SerializedIds ==
    /\ \A i, j \in DOMAIN queries :
          i # j => queries[i].query_id # queries[j].query_id
    /\ \A i, j \in DOMAIN complaints :
          i # j => complaints[i].complaint_id # complaints[j].complaint_id
    /\ \A t \in 1..MaxThreads :
          Reported(t)
          => IF threads[t].json.intent = Intent("capture_user_query")
             THEN \E i \in DOMAIN queries :
                     /\ queries[i].query_id = ReportedId(t)
                     /\ queries[i].query_text = threads[t].json.parameters.d.user_query
             ELSE \E i \in DOMAIN complaints :
                     /\ complaints[i].complaint_id = ReportedId(t)
                     /\ complaints[i].complaint_text =
                           threads[t].json.parameters.d.complaint_text

\* A thread that committed row 1 has not answered yet, while another thread
\* has inserted row 2 of the same table and answered.
C12_Witness ==
    \E a, b \in 1..MaxThreads :
        /\ a # b
        /\ threads[a].pc = "committed"
        /\ threads[a].out.qrows # <<>>
        /\ threads[a].out.qrows[1].query_id = 1
        /\ Reported(b)
        /\ threads[b].json.intent = Intent("capture_user_query")
        /\ ReportedId(b) = 2

\* C13: with the station store unloaded every provide_station_name request,
\* and with the PNR store unloaded every provide_pnr request, is answered
\* with the static store-unloaded message and no context, whatever its
\* payload; no exception is raised.
C13_UnloadedFailsClosed ==
    /\ (Served("app", "provide_station_name") /\ station_data_raw = None)
       => response =
             Reply(Fulfil("Error: Station database is not loaded. Please contact support.", <<>>))
    /\ (Served("app", "provide_pnr") /\ pnr_data = None)
       => response =
             Reply(Fulfil("Error: PNR database is not loaded. Please check server logs.", <<>>))

\* A response with the complaint token taken out of the text and of the
\* context parameters.
WithoutToken(resp) ==
    IF resp = Raised \/ resp.outputContexts = Absent THEN resp
    ELSE [tmpl |-> resp.fulfillmentText.tmpl,
          train_no |-> resp.fulfillmentText.args[1],
          outputContexts |->
              [i \in DOMAIN resp.outputContexts.xs |->
                  [resp.outputContexts.xs[i] EXCEPT !.parameters.d.complaint_token = Absent]]]

\* C14: a request sent again, with the lookup stores as they were, gets the
\* same response as before for provide_station_name and
\* user_confirms_station_yes, and for provide_pnr a response that is the same
\* but for the complaint token.
C14_RetryDeterminism ==
    (retry # None /\ request.json = retry.json)
    => IF request.json.intent = Intent("provide_pnr")
       THEN WithoutToken(response) = WithoutToken(retry.response)
       ELSE response = retry.response

\* A provide_pnr request was sent again, records were stored meanwhile, and
\* the second response carries another token.
C14_Witness ==
    /\ retry # None
    /\ request.json = retry.json
    /\ request.json.intent = Intent("provide_pnr")
    /\ response # retry.response
    /\ Len(queries) > 0

\* Request j names an intent, and not one of the six handled ones.
NamesUnhandled(j) ==
    /\ j.intent # Absent
    /\ \A name \in HandledIntents : j.intent # Intent(name)

\* C15: a request whose intent name is none of the six handled names is
\* answered with the program's fixed unrecognized-intent text and no context,
\* whatever else it carries, and no record is added to either table.
C15_Step ==
    NamesUnhandled(request'.json)
    => /\ response' =
             Reply(Fulfil(IF request'.program = "app"
                          THEN "Error: Unrecognized intent in webhook."
                          ELSE "Error: Unrecognized intent.", <<>>))
       /\ queries' = queries
       /\ complaints' = complaints

C15_UnrecognizedIntent == [][C15_Step]_vars

\* A request with an unhandled name, carrying a complaint's parameters and
\* contexts, got the fallback text from the cloud function while the sink
\* held a record.
C15_Witness ==
    /\ request # None
    /\ request.program = "main"
    /\ NamesUnhandled(request.json)
    /\ request.json.parameters = Param("complaint_text", Str(NoWaterInCoach))
    /\ request.json.outputContexts = List(<<LocationCtx, BothCtx>>)
    /\ response = Reply(Fulfil("Error: Unrecognized intent.", <<>>))
    /\ Len(queries) > 0

\* C16: a complaint stored from a request with several
\* awaiting-complaint-description contexts takes pnr, complaint_token and
\* station_confirmed from the first of them in list order: what the row
\* holds of the three comes from that context, and the row holds that
\* context's pnr and token, or its station when it has no pnr.
C16_FirstMatchRead ==
    (/\ WellFormed("capture_complaint_description")
     /\ response.outputContexts = List(<<>>)
     /\ FirstNamed(request.json.outputContexts.xs, "awaiting-complaint-description") # 0)
    => LET ctxs == request.json.outputContexts.xs
           first == ctxs[FirstNamed(ctxs, "awaiting-complaint-description")].parameters.d
           row == complaints[Len(complaints)]
       IN /\ NonEmpty(row.pnr) => row.pnr = first.pnr
          /\ NonEmpty(row.token) => row.token = first.complaint_token
          /\ NonEmpty(row.station) => row.station = first.station_confirmed
          /\ (first.pnr.t = "str" /\ NonEmpty(first.pnr))
                => row.pnr = first.pnr /\ row.token = GetOrEmpty(first, "complaint_token")
          /\ (~NonEmpty(first.pnr) /\ first.station_confirmed.t = "str")
                => row.station = first.station_confirmed

\* The contexts of the list whose name contains kind.
Named(ctxs, kind) == {i \in DOMAIN ctxs : NameHas(ctxs[i].name, kind)}

\* C17: a complaint stored from a request whose one
\* awaiting-complaint-description context carries a non-empty pnr and a
\* non-empty station_confirmed keeps that pnr and its token and has an empty
\* station; stored from one that carries only a non-empty station_confirmed,
\* it keeps the station and has an empty pnr and an empty token.
C17_PnrPrecedence ==
    (/\ WellFormed("capture_complaint_description")
     /\ response.outputContexts = List(<<>>)
     /\ Cardinality(Named(request.json.outputContexts.xs,
                          "awaiting-complaint-description")) = 1)
    => LET ctxs == request.json.outputContexts.xs
           c == ctxs[FirstNamed(ctxs, "awaiting-complaint-description")].parameters.d
           row == complaints[Len(complaints)]
       IN /\ (NonEmpty(c.pnr) /\ NonEmpty(c.station_confirmed))
                => /\ row.pnr = c.pnr
                   /\ row.token = GetOrEmpty(c, "complaint_token")
                   /\ row.station = Empty
          /\ (~NonEmpty(c.pnr) /\ NonEmpty(c.station_confirmed))
                => /\ row.station = c.station_confirmed
                   /\ row.pnr = Empty
                   /\ row.token = Empty

\* Both cases are in the sink: a row stored from a context with pnr and
\* station, and before it a row stored with a station only.
C17_Witness ==
    /\ WellFormed("capture_complaint_description")
    /\ response.outputContexts = List(<<>>)
    /\ request.json.outputContexts.xs = <<LocationCtx, BothCtx>>
    /\ Len(complaints) = 2
    /\ complaints[2].pnr = Str(Pnr1234567890)
    /\ complaints[2].station = Empty
    /\ complaints[1].station = Str(NewDelhi)
    /\ complaints[1].token = Empty

\* Text a is text b but for the case of its letters.
SameLetters(a, b) ==
    /\ Len(a) = Len(b)
    /\ \A i \in DOMAIN a : LowerChar(a[i]) = LowerChar(b[i])

\* The typed text is double quotes, then the name or the code of the row in
\* any letter case, then double quotes.
Typed(text, row) ==
    \E lo \in 1..(Len(text) + 1), hi \in 0..Len(text) :
        /\ \A i \in 1..(lo - 1) : text[i] = "\""
        /\ \A i \in (hi + 1)..Len(text) : text[i] = "\""
        /\ lo <= hi
        /\ \/ SameLetters(SubSeq(text, lo, hi), row.station)
           \/ SameLetters(SubSeq(text, lo, hi), row.id_code)

\* The rows of the station store that the station_input of request j names.
TypedRows(j) ==
    {i \in DOMAIN station_data_raw.rows :
        Typed(j.parameters.d.station_input.s, station_data_raw.rows[i])}

\* The last request is a provide_station_name request with a text
\* station_input and a session, served with the station store loaded.
StationSearched ==
    /\ Served("app", "provide_station_name")
    /\ request.json.parameters.t = "dict"
    /\ request.json.parameters.d.station_input.t = "str"
    /\ request.json.session # Absent
    /\ station_data_raw # None

\* C18: a station_input that, lower-cased and without its surrounding double
\* quotes, is the lower-cased code or name of a station is answered with an
\* awaiting-station-confirmation context whose station_confirmed is the name,
\* as the store spells it, of the first such row, and with a prompt that
\* embeds the same name.
C18_StationMatch ==
    (StationSearched /\ TypedRows(request.json) # {})
    => LET rows == TypedRows(request.json)
           name == Str(station_data_raw.rows[CHOOSE i \in rows : \A k \in rows : i <= k].station)
       IN /\ response # Raised
          /\ response.fulfillmentText = Fulfil("Did you mean '{original_station_name}'?", <<name>>)
          /\ response.outputContexts.t = "list"
          /\ Len(response.outputContexts.xs) = 1
          /\ NameHas(response.outputContexts.xs[1].name, "awaiting-station-confirmation")
          /\ response.outputContexts.xs[1].parameters.d.station_confirmed = name

\* A quoted text in mixed case that is the code of one row and the name of a
\* later row was answered with the name of the earlier row.
C18_Witness ==
    /\ StationSearched
    /\ Cardinality(TypedRows(request.json)) = 2
    /\ request.json.parameters.d.station_input.s[1] = "\""
    /\ \E i \in DOMAIN request.json.parameters.d.station_input.s :
          request.json.parameters.d.station_input.s[i] = "W"
    /\ response.outputContexts.t = "list"
    /\ response.outputContexts.xs[1].parameters.d.station_confirmed = Str(Howrah)

\* C19: in a conversation whose turns send back exactly the contexts of the
\* turn before, every Complaint Record with a non-empty pnr holds a key of
\* the PNR store and a token with the characters of that key, each as often
\* as in the key.
C19_StoredTokenOfKey ==
    \A n \in DOMAIN complaints :
        NonEmpty(complaints[n].pnr)
        => /\ complaints[n].pnr.s \in DOMAIN pnr_data.rows
           /\ Len(complaints[n].token.s) = Len(complaints[n].pnr.s)
           /\ \A i \in DOMAIN complaints[n].pnr.s :
                 Count(complaints[n].token.s, complaints[n].pnr.s[i])
                     = Count(complaints[n].pnr.s, complaints[n].pnr.s[i])

\* The turn before the last verified a PNR given with a fraction and emitted
\* a shuffled token, and the last turn stored a complaint with that key and
\* that very token.
C19_Witness ==
    /\ Len(turns) >= 2
    /\ turns[Len(turns) - 1].json.intent = Intent("provide_pnr")
    /\ turns[Len(turns) - 1].response.outputContexts.t = "list"
    /\ Served("app", "capture_complaint_description")
    /\ Len(complaints) > 0
    /\ LET row == complaints[Len(complaints)]
           c == turns[Len(turns) - 1].response.outputContexts.xs[1].parameters.d
       IN /\ row.pnr = Str(Pnr0000000011)
          /\ row.token = c.complaint_token
          /\ row.token # row.pnr

\* Turn k of the conversation named this intent.
TurnIs(k, name) == k \in DOMAIN turns /\ turns[k].json.intent = Intent(name)

\* Turn k named this intent and its response emitted a context.
Advanced(k, name) ==
    /\ TurnIs(k, name)
    /\ turns[k].response # Raised
    /\ turns[k].response.outputContexts.t = "list"

\* Turn k stored a Complaint Record and answered with its identifier.
Lodged(k) ==
    /\ TurnIs(k, "capture_complaint_description")
    /\ turns[k].response # Raised
    /\ turns[k].response.outputContexts = List(<<>>)

\* C20: when a conversation gives a 10-digit phone number, then has a PNR
\* verified or a station found and confirmed, then describes the complaint,
\* each turn sending back the contexts of the turn before, the Complaint
\* Record stored by the last of these turns holds the phone number of the
\* first.
C20_PhoneCarried ==
    \A a \in DOMAIN turns :
        (/\ TurnIs(a, "provide_phone_number")
         /\ Len(DigitsOf(turns[a].json.queryText.s)) = 10)
        => LET phone == Str(DigitsOf(turns[a].json.queryText.s))
               stored(k) ==
                   complaints[turns[k].response.fulfillmentText.args[1].n].phone_number
           IN /\ (Advanced(a + 1, "provide_pnr") /\ Lodged(a + 2))
                    => stored(a + 2) = phone
              /\ (/\ Advanced(a + 1, "provide_station_name")
                  /\ Advanced(a + 2, "user_confirms_station_yes")
                  /\ Lodged(a + 3))
                    => stored(a + 3) = phone

====
